---- MODULE Spec2Model ----
(***************************************************************************)
(* Model of generate-font.mjs: an icon-font generator that collects the    *)
(* .svg files of ./svg, names one glyph per file, assembles them through   *)
(* a font stream, transcodes the assembled document and writes             *)
(* ./icons/icons.woff2 and ./icons/icons.css.                              *)
(*                                                                         *)
(* Strings are sequences of pieces.  A piece is one character ("a", "-")   *)
(* or a literal fragment of a template of the source (".icon-"); string    *)
(* concatenation is \o.  Every string a function inspects character by     *)
(* character (file names, glyph names, answers, hex digits) is made of     *)
(* one-character pieces only.                                              *)
(***************************************************************************)
EXTENDS Integers, Sequences, FiniteSets, TLC

VARIABLES
  svgDirExists,  \* fs: ./svg exists
  listing,       \* fs: what readdirSync(./svg) returns, in listing order
  outDirExists,  \* fs: ./icons exists
  outFiles,      \* fs: the files icons.woff2 and icons.css of ./icons
  fsOps,         \* history of the file-system calls the run has made
  pc,            \* position of the run
  rl,            \* the readline interface: "open", "asking", "closed"
  exitCode,      \* process exit status, -1 while the process is alive
  console,       \* messages printed so far
  svgFiles,      \* main's svgFiles (result of readSVGFiles)
  glyphs,        \* glyph metadata written to fontStream, in write order
  cssContent,    \* generateFont's cssContent
  svgChunks,     \* generateFont's svgChunks
  stream,        \* fontStream: "none", "flowing", "finished", "destroyed"
  total,         \* number of chunks the assembler produces in this run
  errors,        \* number of 'error' events fontStream has emitted
  calls,         \* number of generateFont invocations
  answered,      \* the lines received by the callback of rl.question
  arg,           \* function-level specifications: the inputs
  res            \* function-level specifications: the results so far

vars == <<svgDirExists, listing, outDirExists, outFiles, fsOps, pc, rl,
          exitCode, console, svgFiles, glyphs, cssContent, svgChunks,
          stream, total, errors, calls, answered, arg, res>>

mainVars == <<svgDirExists, listing, outDirExists, outFiles, fsOps, pc, rl,
              exitCode, console, svgFiles, glyphs, cssContent, svgChunks,
              stream, total, errors, calls, answered>>

----------------------------------------------------------------------------
(* Bounds of the model *)

MaxFiles == 3    \* entries in the listing of ./svg
MaxLen == 3      \* length of the strings given to sanitizeGlyphName
MaxChunks == 2   \* chunks the font stream produces
MaxErrors == 1   \* 'error' events the font stream emits
MaxIdx == 2      \* consecutive glyph indices sampled from 0

----------------------------------------------------------------------------
(* Characters *)

LowerCase == <<"a","b","c","d","e","f","g","h","i","j","k","l","m",
               "n","o","p","q","r","s","t","u","v","w","x","y","z">>
UpperCase == <<"A","B","C","D","E","F","G","H","I","J","K","L","M",
               "N","O","P","Q","R","S","T","U","V","W","X","Y","Z">>
Digits == <<"0","1","2","3","4","5","6","7","8","9">>

Range(s) == {s[k] : k \in 1..Len(s)}

\* The sample alphabet the bounded strings are drawn from.
Chars == {"a", "Z", "9", "-", "_", "."}

RECURSIVE StringsUpTo(_)
StringsUpTo(n) ==
  IF n = 0 THEN {<<>>}
  ELSE LET shorter == StringsUpTo(n - 1)
       IN shorter \cup {Append(s, c) : s \in shorter, c \in Chars}

----------------------------------------------------------------------------
(* sanitizeGlyphName: name.replace(/[^a-zA-Z0-9]/g, '-') *)

\* the character class [^a-zA-Z0-9]
NotAlnum(c) ==
  ~ (c \in Range(LowerCase) \/ c \in Range(UpperCase) \/ c \in Range(Digits))

\* replace() without the g flag: only the first match is replaced.
RECURSIVE sanitizeFirstOnly(_)
sanitizeFirstOnly(name) ==
  IF name = <<>> THEN <<>>
  ELSE IF NotAlnum(Head(name)) THEN <<"-">> \o Tail(name)
       ELSE <<Head(name)>> \o sanitizeFirstOnly(Tail(name))

\* replace() with the g flag scans the string left to right and substitutes
\* every match of the one-character class.
RECURSIVE sanitizeGlyphName(_)
sanitizeGlyphName(name) ==
  IF name = <<>> THEN <<>>
  ELSE (IF NotAlnum(Head(name)) THEN <<"-">> ELSE <<Head(name)>>)
       \o sanitizeGlyphName(Tail(name))

----------------------------------------------------------------------------
(* Paths and directory entries *)

SvgExt == <<".", "s", "v", "g">>

\* file.endsWith(suffix)
endsWith(file, suffix) ==
  /\ Len(file) >= Len(suffix)
  /\ SubSeq(file, Len(file) - Len(suffix) + 1, Len(file)) = suffix

\* process.cwd() is one opaque piece; path.join(a, b) of a directory and a
\* plain entry name puts one separator between them.
currentDir == <<"<cwd>">>
join(dir, file) == dir \o <<"/">> \o file

svgDirectory == join(currentDir, <<"s", "v", "g">>)
outputDirectory == join(currentDir, <<"i", "c", "o", "n", "s">>)
fontName == <<"i", "c", "o", "n", "s">>

\* path.basename(path, suffix): the part after the last separator, without
\* the suffix when it ends with it; a name that IS the suffix is kept whole.
basename(path, suffix) ==
  LET seps == {k \in 1..Len(path) : path[k] = "/"}
      start == IF seps = {} THEN 1
               ELSE (CHOOSE k \in seps : \A j \in seps : j <= k) + 1
      base == SubSeq(path, start, Len(path))
  IN IF path = suffix THEN <<>>
     ELSE IF endsWith(base, suffix) /\ base # suffix
          THEN SubSeq(base, 1, Len(base) - Len(suffix))
          ELSE base

\* The names an entry of ./svg is drawn from.
EntryNames ==
  { <<"a">> \o SvgExt,
    <<"b">> \o SvgExt,
    <<"c", "-", "1">> \o SvgExt,
    <<"c", "_", "1">> \o SvgExt,
    SvgExt,
    <<"a", ".", "t", "x", "t">>,
    <<"a", "s", "v", "g">> }

----------------------------------------------------------------------------
(* The forEach callback of generateFont: one glyph per file *)

PUABase == 57344   \* 0xe000

HexDigits == Digits \o <<"a", "b", "c", "d", "e", "f">>

\* Number.prototype.toString(16) of a non-negative integer
RECURSIVE toString16(_)
toString16(n) ==
  IF n < 16 THEN <<HexDigits[n + 1]>>
  ELSE toString16(n \div 16) \o <<HexDigits[(n % 16) + 1]>>

\* String.fromCharCode(n): a string of one UTF-16 code unit, n modulo 2^16.
\* A string of code units is a sequence of their numbers.
fromCharCode(n) == <<n % 65536>>

\* s.charCodeAt(k), k counted from 0
charCodeAt(s, k) == s[k + 1]

\* lines 79-89: the metadata attached to the glyph written to fontStream
\* and the rule pushed on cssContent, for the file at position index
glyphOf(file, index) ==
  LET glyphName == sanitizeGlyphName(basename(file, SvgExt))
      unicode == fromCharCode(PUABase + index)
  IN [metadata |-> [unicode |-> <<unicode>>, name |-> glyphName],
      css |-> <<".icon-">> \o glyphName \o <<":before { content: \"\\">>
              \o toString16(charCodeAt(unicode, 0)) \o <<"\"; }">>]

\* Reading a rule of the stylesheet back

\* the value of a string of hexadecimal digits
RECURSIVE HexValue(_)
HexValue(h) ==
  IF h = <<>> THEN 0
  ELSE 16 * HexValue(SubSeq(h, 1, Len(h) - 1))
       + (CHOOSE d \in 0..15 : HexDigits[d + 1] = h[Len(h)])

\* the code point a stylesheet rule binds: the digits between the escape
\* that follows the selector and the closing fragment
RuleCodePoint(rule) ==
  LET open == CHOOSE k \in 1..Len(rule) : rule[k] = ":before { content: \"\\"
  IN HexValue(SubSeq(rule, open + 1, Len(rule) - 1))

----------------------------------------------------------------------------
(* readSVGFiles and the text helpers of main *)

\* fs.readdirSync(directory): only ./svg is ever listed
readdirSync(directory, entries) ==
  IF directory = svgDirectory THEN entries ELSE <<>>

IsSvgName(file) == endsWith(file, SvgExt)

\* the characters of the entry names, in code unit order
SortAlphabet == <<"-", ".", "1", "_", "a", "b", "c", "g", "s", "t", "v", "x">>

\* readSVGFiles with the entries sorted by name before they are filtered
RECURSIVE SortedEntries(_)
SortedEntries(names) ==
  IF names = {} THEN <<>>
  ELSE LET Before(a, b) ==
             \/ a = b
             \/ \E k \in 1..Len(a) + 1 :
                  /\ SubSeq(a, 1, k - 1) = SubSeq(b, 1, k - 1)
                  /\ \/ (k = Len(a) + 1 /\ Len(b) >= k)
                     \/ (k <= Len(a) /\ k <= Len(b) /\ a[k] # b[k]
                         /\ \E i, j \in 1..Len(SortAlphabet) :
                              /\ SortAlphabet[i] = a[k]
                              /\ SortAlphabet[j] = b[k]
                              /\ i < j)
           first == CHOOSE a \in names : \A b \in names : Before(a, b)
       IN <<first>> \o SortedEntries(names \ {first})

readSVGFilesSorted(directory, entries) ==
  LET kept == SelectSeq(SortedEntries(Range(readdirSync(directory, entries))),
                        IsSvgName)
  IN [k \in 1..Len(kept) |-> join(directory, kept[k])]

\* readdirSync(directory).filter(endsWith('.svg')).map(join(directory, file))
readSVGFiles(directory, entries) ==
  LET kept == SelectSeq(readdirSync(directory, entries), IsSvgName)
  IN [k \in 1..Len(kept) |-> join(directory, kept[k])]

WhiteSpace == {" ", "\t", "\n", "\r"}

\* String.prototype.trim: drops the white space at both ends
RECURSIVE trimStart(_)
trimStart(s) ==
  IF s # <<>> /\ Head(s) \in WhiteSpace THEN trimStart(Tail(s)) ELSE s

RECURSIVE trimEnd(_)
trimEnd(s) ==
  IF s # <<>> /\ s[Len(s)] \in WhiteSpace
  THEN trimEnd(SubSeq(s, 1, Len(s) - 1)) ELSE s

trim(s) == trimEnd(trimStart(s))

\* String.prototype.toLowerCase
toLowerCase(s) ==
  [k \in 1..Len(s) |->
     IF s[k] \in Range(UpperCase)
     THEN LowerCase[CHOOSE n \in 1..Len(UpperCase) : UpperCase[n] = s[k]]
     ELSE s[k]]

\* line 193 with startsWith in place of the comparison
confirmedByPrefix(answer) ==
  LET a == toLowerCase(trim(answer)) IN a # <<>> /\ Head(a) = "s"

\* line 193: answer.trim().toLowerCase() === 's'
confirmed(answer) == toLowerCase(trim(answer)) = <<"s">>

\* The lines a user may type at the prompt.
Answers ==
  { <<"s">>, <<" ", "S", "\t">>, <<"n">>, <<>>, <<"s", "i">>,
    <<"y">>, <<" ">>, <<"s", " ", "n">> }

----------------------------------------------------------------------------
(* The output files *)

\* the font asset saved under the name of the intermediate format
woff2PathTtf == join(outputDirectory, fontName \o <<".ttf">>)

woff2Path == join(outputDirectory, fontName \o <<".woff2">>)
cssPath == join(outputDirectory, fontName \o <<".css">>)

OldContent == <<"<old>">>

\* lines 121-126: the fragment of the template between the url of the font
\* and the family of the shared rule
FontFaceAfterUrl ==
  "') format('woff2'); \n  font-weight: normal; \n  font-style: normal; \n} \n[class^=\"icon-\"], [class*=\" icon-\"] { \n  font-family: '"

\* lines 118-135: the font-face block and the shared rule
fontFace ==
  <<"\n@font-face { \n  font-family: '">> \o fontName
  \o <<"'; \n  src: url('">> \o fontName
  \o <<".woff2">>
  \o <<FontFaceAfterUrl>>
  \o fontName
  \o <<"' !important; \n  speak: none; \n  font-style: normal; \n  font-weight: normal; \n  font-variant: normal; \n  text-transform: none; \n  line-height: 1; \n  -webkit-font-smoothing: antialiased; \n  -moz-osx-font-smoothing: grayscale; \n}">>

\* Array.prototype.join(sep) of an array of strings
RECURSIVE arrayJoin(_, _)
arrayJoin(a, sep) ==
  IF a = <<>> THEN <<>>
  ELSE IF Len(a) = 1 THEN a[1]
       ELSE a[1] \o sep \o arrayJoin(Tail(a), sep)

\* line 136: `${fontFace}\n\n${cssContent.join('\n')}`
cssOutput(rules) == fontFace \o <<"\n", "\n">> \o arrayJoin(rules, <<"\n">>)

\* Buffer.concat(svgChunks)
RECURSIVE bufferConcat(_)
bufferConcat(chunks) ==
  IF chunks = <<>> THEN <<>> ELSE Head(chunks) \o bufferConcat(Tail(chunks))

\* lines 108-112: the transcoders are opaque functions of their input
svg2ttf(svgFont) == <<"ttf(">> \o svgFont \o <<")">>
ttf2woff2(ttf) == <<"woff2(">> \o ttf \o <<")">>

\* fs.writeFileSync(filePath, content) on the files of ./icons
saveFile(files, filePath, content) ==
  [p \in DOMAIN files \cup {filePath} |->
     IF p = filePath THEN content ELSE files[p]]

FsOp(op, path) == [op |-> op, path |-> path]

----------------------------------------------------------------------------
(* The run: main, the prompt, generateFont and the font stream's events *)

\* listings of ./svg: entry names are unique within a directory
RECURSIVE Listings(_)
Listings(n) ==
  IF n = 0 THEN {<<>>}
  ELSE LET shorter == Listings(n - 1)
       IN shorter \cup {Append(l, e) : l \in shorter, e \in EntryNames}

DistinctListings ==
  {l \in Listings(MaxFiles) : \A i, j \in 1..Len(l) : i # j => l[i] # l[j]}

Init ==
  /\ svgDirExists \in BOOLEAN
  /\ listing \in (IF svgDirExists THEN DistinctListings ELSE {<<>>})
  /\ outDirExists \in BOOLEAN
  /\ outFiles \in (IF outDirExists
                   THEN {[p \in D |-> OldContent] : D \in SUBSET {woff2Path, cssPath}}
                   ELSE {[p \in {} |-> OldContent]})
  /\ fsOps = <<>>
  /\ pc = "main"
  /\ rl = "open"
  /\ exitCode = -1
  /\ console = <<>>
  /\ svgFiles = <<>>
  /\ glyphs = <<>>
  /\ cssContent = <<>>
  /\ svgChunks = <<>>
  /\ stream = "none"
  /\ total = 0
  /\ errors = 0
  /\ calls = 0
  /\ answered = <<>>
  /\ arg = <<>>
  /\ res = <<>>

\* the statuses the process ends with: lines 166 and 172, and the status
\* of a process ended by an unhandled rejection
ExitDirectoryNotFound == 1
ExitNoInputFiles == 1
ExitUncaught == 1

\* process.exit(code): nothing runs afterwards
ProcessExit(code) ==
  /\ exitCode' = code
  /\ pc' = "exited"

\* generateFont with the rules kept in a map keyed by glyph name: a later
\* file with the same name overwrites the rule of an earlier one
generateFontKeyedRules(files) ==
  LET all == [k \in 1..Len(files) |-> glyphOf(files[k], k - 1)]
      Last(g) == \A j \in 1..Len(all) :
                   all[j].metadata.name = g.metadata.name
                     => all[j].metadata.unicode[1][1] <= g.metadata.unicode[1][1]
      kept == SelectSeq(all, Last)
  IN /\ glyphs' = [k \in 1..Len(all) |-> all[k].metadata]
     /\ cssContent' = [k \in 1..Len(kept) |-> kept[k].css]
     /\ svgChunks' = <<>>
     /\ stream' = "flowing"
     /\ total' \in 1..MaxChunks
     /\ errors' = 0
     /\ calls' = calls + 1

\* lines 67-152, the synchronous part of generateFont: every file is
\* written to fontStream with its metadata and its rule is pushed on
\* cssContent, the stream is ended and the three handlers are registered.
\* The number of chunks the assembler will produce is the stream's choice.
generateFont(files) ==
  /\ glyphs' = [k \in 1..Len(files) |-> glyphOf(files[k], k - 1).metadata]
  /\ cssContent' = [k \in 1..Len(files) |-> glyphOf(files[k], k - 1).css]
  /\ svgChunks' = <<>>
  /\ stream' = "flowing"
  /\ total' \in 1..MaxChunks
  /\ errors' = 0
  /\ calls' = calls + 1

\* main with process.exit() called without a status
MainDirMissingExitZero ==
  /\ pc = "main"
  /\ ~ svgDirExists
  /\ fsOps' = fsOps \o <<FsOp("existsSync", svgDirectory)>>
  /\ console' = Append(console, "La cartella /svg non e stata trovata")
  /\ ProcessExit(0)
  /\ UNCHANGED <<svgDirExists, listing, outDirExists, outFiles, rl, svgFiles,
                 glyphs, cssContent, svgChunks, stream, total, errors, calls,
                 answered, arg, res>>

\* lines 164-167: ./svg does not exist
MainDirMissing ==
  /\ pc = "main"
  /\ ~ svgDirExists
  /\ fsOps' = fsOps \o <<FsOp("existsSync", svgDirectory)>>
  /\ console' = Append(console, "La cartella /svg non e stata trovata")
  /\ ProcessExit(ExitDirectoryNotFound)
  /\ UNCHANGED <<svgDirExists, listing, outDirExists, outFiles, rl, svgFiles,
                 glyphs, cssContent, svgChunks, stream, total, errors, calls,
                 answered, arg, res>>

\* main with the output directory created before the files are counted
MainNoFilesMkdirFirst ==
  /\ pc = "main"
  /\ svgDirExists
  /\ readSVGFiles(svgDirectory, listing) = <<>>
  /\ svgFiles' = readSVGFiles(svgDirectory, listing)
  /\ fsOps' = fsOps \o <<FsOp("existsSync", svgDirectory),
                         FsOp("readdirSync", svgDirectory),
                         FsOp("existsSync", outputDirectory)>>
                    \o (IF outDirExists THEN <<>>
                        ELSE <<FsOp("mkdirSync", outputDirectory)>>)
  /\ outDirExists' = TRUE
  /\ console' = Append(console, "Nessun file SVG trovato nella cartella /svg")
  /\ ProcessExit(1)
  /\ UNCHANGED <<svgDirExists, listing, outFiles, rl,
                 glyphs, cssContent, svgChunks, stream, total, errors, calls,
                 answered, arg, res>>

\* main with a status of its own for the empty directory
MainNoFilesExitTwo ==
  /\ pc = "main"
  /\ svgDirExists
  /\ readSVGFiles(svgDirectory, listing) = <<>>
  /\ svgFiles' = readSVGFiles(svgDirectory, listing)
  /\ fsOps' = fsOps \o <<FsOp("existsSync", svgDirectory),
                         FsOp("readdirSync", svgDirectory)>>
  /\ console' = Append(console, "Nessun file SVG trovato nella cartella /svg")
  /\ ProcessExit(2)
  /\ UNCHANGED <<svgDirExists, listing, outDirExists, outFiles, rl,
                 glyphs, cssContent, svgChunks, stream, total, errors, calls,
                 answered, arg, res>>

\* lines 164-173: ./svg exists and holds no .svg file
MainNoFiles ==
  /\ pc = "main"
  /\ svgDirExists
  /\ readSVGFiles(svgDirectory, listing) = <<>>
  /\ svgFiles' = readSVGFiles(svgDirectory, listing)
  /\ fsOps' = fsOps \o <<FsOp("existsSync", svgDirectory),
                         FsOp("readdirSync", svgDirectory)>>
  /\ console' = Append(console, "Nessun file SVG trovato nella cartella /svg")
  /\ ProcessExit(ExitNoInputFiles)
  /\ UNCHANGED <<svgDirExists, listing, outDirExists, outFiles, rl,
                 glyphs, cssContent, svgChunks, stream, total, errors, calls,
                 answered, arg, res>>

\* main that goes on without asking when ./icons exists
MainNeedConfirmationProceeds ==
  /\ pc = "main"
  /\ svgDirExists
  /\ readSVGFiles(svgDirectory, listing) # <<>>
  /\ outDirExists
  /\ svgFiles' = readSVGFiles(svgDirectory, listing)
  /\ fsOps' = fsOps \o <<FsOp("existsSync", svgDirectory),
                         FsOp("readdirSync", svgDirectory),
                         FsOp("existsSync", outputDirectory)>>
  /\ generateFont(readSVGFiles(svgDirectory, listing))
  /\ pc' = "generate"
  /\ UNCHANGED <<svgDirExists, listing, outDirExists, outFiles, rl, exitCode,
                 console, answered, arg, res>>

\* lines 164-177 and 191-199: ./icons exists, the question is asked
MainNeedConfirmation ==
  /\ pc = "main"
  /\ svgDirExists
  /\ readSVGFiles(svgDirectory, listing) # <<>>
  /\ outDirExists
  /\ svgFiles' = readSVGFiles(svgDirectory, listing)
  /\ fsOps' = fsOps \o <<FsOp("existsSync", svgDirectory),
                         FsOp("readdirSync", svgDirectory),
                         FsOp("existsSync", outputDirectory)>>
  /\ rl' = "asking"
  /\ pc' = "question"
  /\ UNCHANGED <<svgDirExists, listing, outDirExists, outFiles, exitCode,
                 console, glyphs, cssContent, svgChunks, stream, total,
                 errors, calls, answered, arg, res>>

\* lines 164-182 and 200-202: ./icons is created and generateFont is called
MainProceed ==
  /\ pc = "main"
  /\ svgDirExists
  /\ readSVGFiles(svgDirectory, listing) # <<>>
  /\ ~ outDirExists
  /\ svgFiles' = readSVGFiles(svgDirectory, listing)
  /\ fsOps' = fsOps \o <<FsOp("existsSync", svgDirectory),
                         FsOp("readdirSync", svgDirectory),
                         FsOp("existsSync", outputDirectory),
                         FsOp("mkdirSync", currentDir),
                         FsOp("mkdirSync", outputDirectory)>>
  /\ outDirExists' = TRUE
  /\ generateFont(readSVGFiles(svgDirectory, listing))
  /\ pc' = "generate"
  /\ UNCHANGED <<svgDirExists, listing, outFiles, rl, exitCode, console,
                 answered, arg, res>>

\* lines 164-181: mkdirSync(outputDirectory) throws; the rejection of the
\* async function is unhandled and ends the process with status 1
MainMkdirThrows ==
  /\ pc = "main"
  /\ svgDirExists
  /\ readSVGFiles(svgDirectory, listing) # <<>>
  /\ ~ outDirExists
  /\ svgFiles' = readSVGFiles(svgDirectory, listing)
  /\ fsOps' = fsOps \o <<FsOp("existsSync", svgDirectory),
                         FsOp("readdirSync", svgDirectory),
                         FsOp("existsSync", outputDirectory),
                         FsOp("mkdirSync", currentDir),
                         FsOp("mkdirSync", outputDirectory)>>
  /\ ProcessExit(ExitUncaught)
  /\ UNCHANGED <<svgDirExists, listing, outDirExists, outFiles, rl, console,
                 glyphs, cssContent, svgChunks, stream, total, errors, calls,
                 answered, arg, res>>

\* lines 192-199: the callback of rl.question
Answer ==
  /\ pc = "question"
  /\ \E answer \in Answers :
       /\ answered' = Append(answered, answer)
       /\ IF confirmed(answer)
          THEN /\ generateFont(svgFiles)
               /\ pc' = "generate"
               /\ rl' = "open"
               /\ UNCHANGED console
          ELSE /\ console' = Append(console, "Operazione annullata.")
               /\ rl' = "closed"
               /\ pc' = "idle"
               /\ UNCHANGED <<glyphs, cssContent, svgChunks, stream, total,
                              errors, calls>>
  /\ UNCHANGED <<svgDirExists, listing, outDirExists, outFiles, fsOps,
                 exitCode, svgFiles, arg, res>>

\* the bytes of the k-th chunk the assembler produces
ChunkBytes(k) == <<ToString(k)>>

\* the 'data' handler with unshift in place of push
FontStreamDataUnshift ==
  /\ pc = "generate"
  /\ stream = "flowing"
  /\ Len(svgChunks) < total
  /\ \E isBuffer \in BOOLEAN :
       LET chunk == ChunkBytes(Len(svgChunks) + 1)
       IN svgChunks' = <<chunk>> \o svgChunks
  /\ UNCHANGED <<svgDirExists, listing, outDirExists, outFiles, fsOps, pc, rl,
                 exitCode, console, svgFiles, glyphs, cssContent, stream,
                 total, errors, calls, answered, arg, res>>

\* lines 94-101: the 'data' handler; a chunk comes as a Buffer or as a
\* string, and is pushed as a Buffer of the same bytes
FontStreamData ==
  /\ pc = "generate"
  /\ stream = "flowing"
  /\ Len(svgChunks) < total
  /\ \E isBuffer \in BOOLEAN :
       LET chunk == ChunkBytes(Len(svgChunks) + 1)
       IN svgChunks' = Append(svgChunks, chunk)
  /\ UNCHANGED <<svgDirExists, listing, outDirExists, outFiles, fsOps, pc, rl,
                 exitCode, console, svgFiles, glyphs, cssContent, stream,
                 total, errors, calls, answered, arg, res>>

\* the 'error' handler that only logs
FontStreamErrorOnlyLogs ==
  /\ pc = "generate"
  /\ stream = "flowing"
  /\ errors < MaxErrors
  /\ errors' = errors + 1
  /\ console' = Append(console, "Error in SVGIcons2SVGFontStream:")
  /\ \E destroyed \in BOOLEAN :
       stream' = IF destroyed THEN "destroyed" ELSE stream
  /\ UNCHANGED <<svgDirExists, listing, outDirExists, outFiles, fsOps, pc, rl,
                 exitCode, svgFiles, glyphs, cssContent, svgChunks, total,
                 calls, answered, arg, res>>

\* lines 148-151: the 'error' handler logs and closes the prompt.  The
\* stream either was destroyed with the error (no further event) or emitted
\* it and goes on (emit('error', ...) on a stream with a listener).
FontStreamError ==
  /\ pc = "generate"
  /\ stream = "flowing"
  /\ errors < MaxErrors
  /\ errors' = errors + 1
  /\ console' = Append(console, "Error in SVGIcons2SVGFontStream:")
  /\ rl' = "closed"
  /\ \E destroyed \in BOOLEAN :
       stream' = IF destroyed THEN "destroyed" ELSE stream
  /\ UNCHANGED <<svgDirExists, listing, outDirExists, outFiles, fsOps, pc,
                 exitCode, svgFiles, glyphs, cssContent, svgChunks, total,
                 calls, answered, arg, res>>

\* where the body of the 'finish' handler may throw
FinishOutcomes == {"svg2ttf throws", "ttf2woff2 throws", "woff2 write throws",
                   "css write throws", "complete"}

\* the 'finish' handler with the stylesheet saved before the font asset
FontStreamFinishCssFirst ==
  /\ pc = "generate"
  /\ stream = "flowing"
  /\ Len(svgChunks) = total
  /\ stream' = "finished"
  /\ rl' = "closed"
  /\ \E outcome \in FinishOutcomes :
       LET svgFontBuffer == bufferConcat(svgChunks)
           woff2 == ttf2woff2(svg2ttf(svgFontBuffer))
           woff2Op == FsOp("writeFileSync", woff2Path)
           cssOp == FsOp("writeFileSync", cssPath)
           withCss == saveFile(outFiles, cssPath, cssOutput(cssContent))
       IN CASE outcome \in {"svg2ttf throws", "ttf2woff2 throws"} ->
                 /\ console' = Append(console, "Error during font generation:")
                 /\ UNCHANGED <<outFiles, fsOps>>
            [] outcome = "css write throws" ->
                 /\ console' = Append(console, "Error during font generation:")
                 /\ fsOps' = Append(fsOps, cssOp)
                 /\ UNCHANGED outFiles
            [] outcome = "woff2 write throws" ->
                 /\ console' = Append(console, "Error during font generation:")
                 /\ fsOps' = fsOps \o <<cssOp, woff2Op>>
                 /\ outFiles' = withCss
            [] outcome = "complete" ->
                 /\ console' = Append(console,
                      "Font generation complete! CSS and WOFF2 files have been generated.")
                 /\ fsOps' = fsOps \o <<cssOp, woff2Op>>
                 /\ outFiles' = saveFile(withCss, woff2Path, woff2)
  /\ UNCHANGED <<svgDirExists, listing, outDirExists, pc, exitCode, svgFiles,
                 glyphs, cssContent, svgChunks, total, errors, calls,
                 answered, arg, res>>

\* lines 103-145: the 'finish' handler, emitted once the assembler has
\* pushed its whole output
FontStreamFinish ==
  /\ pc = "generate"
  /\ stream = "flowing"
  /\ Len(svgChunks) = total
  /\ stream' = "finished"
  /\ rl' = "closed"
  /\ \E outcome \in FinishOutcomes :
       LET svgFontBuffer == bufferConcat(svgChunks)
           woff2 == ttf2woff2(svg2ttf(svgFontBuffer))
           woff2Op == FsOp("writeFileSync", woff2Path)
           cssOp == FsOp("writeFileSync", cssPath)
           withWoff2 == saveFile(outFiles, woff2Path, woff2)
       IN CASE outcome \in {"svg2ttf throws", "ttf2woff2 throws"} ->
                 /\ console' = Append(console, "Error during font generation:")
                 /\ UNCHANGED <<outFiles, fsOps>>
            [] outcome = "woff2 write throws" ->
                 /\ console' = Append(console, "Error during font generation:")
                 /\ fsOps' = Append(fsOps, woff2Op)
                 /\ UNCHANGED outFiles
            [] outcome = "css write throws" ->
                 /\ console' = Append(console, "Error during font generation:")
                 /\ fsOps' = fsOps \o <<woff2Op, cssOp>>
                 /\ outFiles' = withWoff2
            [] outcome = "complete" ->
                 /\ console' = Append(console,
                      "Font generation complete! CSS and WOFF2 files have been generated.")
                 /\ fsOps' = fsOps \o <<woff2Op, cssOp>>
                 /\ outFiles' = saveFile(withWoff2, cssPath, cssOutput(cssContent))
  /\ UNCHANGED <<svgDirExists, listing, outDirExists, pc, exitCode, svgFiles,
                 glyphs, cssContent, svgChunks, total, errors, calls,
                 answered, arg, res>>

\* the event loop is empty: the prompt is closed and no stream is active,
\* so the process ends with the default status 0
EventLoopEmpty ==
  /\ pc \in {"idle", "generate"}
  /\ rl = "closed"
  /\ stream # "flowing"
  /\ ProcessExit(0)
  /\ UNCHANGED <<svgDirExists, listing, outDirExists, outFiles, fsOps, rl,
                 console, svgFiles, glyphs, cssContent, svgChunks, stream,
                 total, errors, calls, answered, arg, res>>

Next ==
  \/ MainDirMissing
  \/ MainNoFiles
  \/ MainNeedConfirmation
  \/ MainProceed
  \/ MainMkdirThrows
  \/ Answer
  \/ FontStreamData
  \/ FontStreamError
  \/ FontStreamFinish
  \/ EventLoopEmpty

Spec == Init /\ [][Next]_vars

\* The run under its scheduling: the synchronous body of main runs, the
\* prompt is eventually answered, a flowing stream eventually delivers its
\* chunks and its 'finish', and a process with nothing left to do ends.
\* An 'error' event may never come.
Fairness ==
  /\ WF_vars(MainDirMissing \/ MainNoFiles \/ MainNeedConfirmation
             \/ MainProceed \/ MainMkdirThrows)
  /\ WF_vars(Answer)
  /\ WF_vars(FontStreamData)
  /\ WF_vars(FontStreamFinish)
  /\ WF_vars(EventLoopEmpty)

\* Whether a run ends depends on the listing only through the number of
\* .svg files being zero or not: listings of at most one entry.
InitLive == Init /\ Len(listing) <= 1

LiveSpec == InitLive /\ [][Next]_vars /\ Fairness

----------------------------------------------------------------------------
(* Properties of the run *)

DoneMessage == "Font generation complete! CSS and WOFF2 files have been generated."

\* the run has printed its success message: the stylesheet was emitted
Done == \E k \in 1..Len(console) : console[k] = DoneMessage

\* the calls of one kind the run has made on the file system
OpsOf(op) == {k \in 1..Len(fsOps) : fsOps[k].op = op}

\* a text cut at its line breaks
RECURSIVE SplitLines(_, _)
SplitLines(text, line) ==
  IF text = <<>> THEN <<line>>
  ELSE IF Head(text) = "\n" THEN <<line>> \o SplitLines(Tail(text), <<>>)
       ELSE SplitLines(Tail(text), Append(line, Head(text)))

\* the glyph rules of a stylesheet: the lines after the font-face block,
\* the shared rule and the blank line
GlyphRules(stylesheet) ==
  SplitLines(SubSeq(stylesheet, Len(fontFace) + 3, Len(stylesheet)), <<>>)

\* the glyph name in the selector of a rule: between .icon- and :before
RuleGlyphName(rule) ==
  LET close == CHOOSE k \in 1..Len(rule) : rule[k] = ":before { content: \"\\"
  IN SubSeq(rule, 2, close - 1)

\* the .svg entries of the listing, in order, counted without readSVGFiles
SvgEntryPositions == {k \in 1..Len(listing) : endsWith(listing[k], SvgExt)}

\* C1: a run that emits the stylesheet writes exactly one glyph rule per
\* collected file, and the k-th rule belongs to the k-th collected file: it
\* has the selector of that file's name and the code point of that file's
\* glyph in the font; two files with one sanitized name keep two rules.
C1_OneRulePerFileInOrder ==
  Done =>
    LET rules == GlyphRules(outFiles[cssPath])
    IN /\ Len(rules) = Cardinality(SvgEntryPositions)
       /\ Len(rules) = Len(svgFiles)
       /\ \A k \in 1..Len(rules) :
            /\ rules[k][1] = ".icon-"
            /\ RuleGlyphName(rules[k])
                 = sanitizeGlyphName(basename(svgFiles[k], SvgExt))
            /\ RuleCodePoint(rules[k]) = glyphs[k].unicode[1][1]
            /\ glyphs[k].name = RuleGlyphName(rules[k])

\* a stylesheet was emitted for three files, two of which sanitize to the
\* same glyph name
C1_Witness ==
  /\ Done
  /\ Len(svgFiles) = 3
  /\ Len(GlyphRules(outFiles[cssPath])) = 3
  /\ \E i, j \in 1..3 : i < j /\ glyphs[i].name = glyphs[j].name

NoInputFiles == "Nessun file SVG trovato nella cartella /svg"
DirectoryNotFound == "La cartella /svg non e stata trovata"
UserAborted == "Operazione annullata."

\* C6: when ./svg exists and has no .svg file, the only thing the run does
\* is to end with the NoInputFiles outcome and a non-zero status; no output
\* directory or file is created or modified and generateFont is not called.
C6_NoInputFiles ==
  [][ (svgDirExists /\ SvgEntryPositions = {}) =>
        /\ pc' = "exited"
        /\ exitCode' # 0 /\ exitCode' # -1
        /\ console' = <<NoInputFiles>>
        /\ outDirExists' = outDirExists
        /\ outFiles' = outFiles
        /\ OpsOf("mkdirSync")' = {} /\ OpsOf("writeFileSync")' = {}
        /\ calls' = 0 /\ stream' = "none" ]_vars

\* a run over a directory that holds entries, none of them a .svg file, has
\* ended
C6_Witness ==
  /\ svgDirExists
  /\ Len(listing) = 2
  /\ SvgEntryPositions = {}
  /\ ~ outDirExists
  /\ pc = "exited"
  /\ console = <<NoInputFiles>>

\* C7: when ./svg does not exist, the only thing the run does is to end
\* with the DirectoryNotFound outcome and a non-zero status, before any
\* directory is read; no output directory or file is created or written.
C7_DirectoryNotFound ==
  [][ ~ svgDirExists =>
        /\ pc' = "exited"
        /\ exitCode' # 0 /\ exitCode' # -1
        /\ console' = <<DirectoryNotFound>>
        /\ OpsOf("readdirSync")' = {}
        /\ OpsOf("mkdirSync")' = {} /\ OpsOf("writeFileSync")' = {}
        /\ outDirExists' = outDirExists
        /\ outFiles' = outFiles
        /\ calls' = 0 ]_vars

\* a run without ./svg and without ./icons has ended
C7_Witness ==
  /\ ~ svgDirExists
  /\ ~ outDirExists
  /\ pc = "exited"
  /\ console = <<DirectoryNotFound>>

\* the answer received is a decline
Declined == answered # <<>> /\ toLowerCase(trim(answered[1])) # <<"s">>

\* C8: when ./icons exists and the answer is a decline, the run ends as
\* UserAborted: generateFont is never called, no output file is written or
\* overwritten in any later state, and the prompt is closed.
C8_DeclineAborts ==
  /\ [](Declined =>
          /\ outDirExists
          /\ console = <<UserAborted>>
          /\ pc \in {"idle", "exited"}
          /\ rl = "closed"
          /\ calls = 0 /\ stream = "none" /\ glyphs = <<>>
          /\ OpsOf("writeFileSync") = {}
          /\ \A p \in DOMAIN outFiles : outFiles[p] = OldContent)
  /\ [][Declined => outFiles' = outFiles /\ outDirExists' = outDirExists]_vars

\* an answer that starts with s but is not s was given while both output
\* files existed, and the process has ended
C8_Witness ==
  /\ answered = << <<"s", "i">> >>
  /\ DOMAIN outFiles = {woff2Path, cssPath}
  /\ pc = "exited"
  /\ exitCode = 0

ErrorMessages == {"Error during font generation:", "Error in SVGIcons2SVGFontStream:"}

PipelineFailed == \E k \in 1..Len(console) : console[k] \in ErrorMessages

\* C9: every failure of the pipeline after input collection surfaces as a
\* non-zero exit: a run that called generateFont either fully succeeds with
\* both output files written, or fails with a non-zero exit status.
C9_FailureExitsNonZero ==
  (pc = "exited" /\ calls > 0) =>
    \/ /\ ~ PipelineFailed
       /\ Done
       /\ OpsOf("writeFileSync") # {}
       /\ outFiles[woff2Path] # OldContent /\ outFiles[cssPath] # OldContent
    \/ /\ PipelineFailed
       /\ exitCode # 0

\* C10: once the font stream has emitted 'error', transcoding is never
\* started and neither the font asset nor the stylesheet is written.
C10_ErrorAbortsRun ==
  [][ errors > 0 => (outFiles' = outFiles /\ ~ Done') ]_vars

WrittenPaths ==
  LET IsWrite(o) == o.op = "writeFileSync"
      w == SelectSeq(fsOps, IsWrite)
  IN [k \in 1..Len(w) |-> w[k].path]

\* the file name in the src url of the font-face block of a stylesheet
StylesheetFontUrl(stylesheet) ==
  LET open == CHOOSE k \in 1..Len(stylesheet) :
                stylesheet[k] = "'; \n  src: url('"
      close == CHOOSE k \in 1..Len(stylesheet) :
                 stylesheet[k] = FontFaceAfterUrl
  IN SubSeq(stylesheet, open + 1, close - 1)

IconsWoff2 ==
  <<"<cwd>", "/", "i", "c", "o", "n", "s", "/", "i", "c", "o", "n", "s", ".woff2">>
IconsCss ==
  <<"<cwd>", "/", "i", "c", "o", "n", "s", "/", "i", "c", "o", "n", "s", ".css">>

----------------------------------------------------------------------------
(* getSVGFilesHash *)

\* Number.prototype.toString() of a non-negative integer
RECURSIVE toString10(_)
toString10(n) ==
  IF n < 10 THEN <<Digits[n + 1]>>
  ELSE toString10(n \div 10) \o <<Digits[(n % 10) + 1]>>

\* fs.statSync(file) on a disk that maps a path to its size and content
statSync(disk, file) == [size |-> disk[file].size]

\* the bytes given to the successive hash.update calls: a hash object
\* digests their concatenation
RECURSIVE hashUpdates(_, _)
hashUpdates(files, disk) ==
  IF files = <<>> THEN <<>>
  ELSE Head(files) \o toString10(statSync(disk, Head(files)).size)
       \o hashUpdates(Tail(files), disk)

\* the bytes given to hash.update when the content of each file is hashed
\* in place of its size
RECURSIVE hashUpdatesOfContent(_, _)
hashUpdatesOfContent(files, disk) ==
  IF files = <<>> THEN <<>>
  ELSE Head(files) \o <<disk[Head(files)].content>>
       \o hashUpdatesOfContent(Tail(files), disk)

\* crypto's md5 digest in hexadecimal: an opaque function of the bytes fed
md5hex(data) == <<"md5(">> \o data \o <<")">>

getSVGFilesHashOfContent(files, disk) ==
  md5hex(toString10(Len(files)) \o hashUpdatesOfContent(files, disk))

\* lines 32-41
getSVGFilesHash(files, disk) ==
  md5hex(toString10(Len(files)) \o hashUpdates(files, disk))

\* the position in the listing of the k-th entry that ends with .svg
SvgEntryPosition(k) ==
  CHOOSE p \in SvgEntryPositions :
    Cardinality({q \in SvgEntryPositions : q <= p}) = k

\* C15: readSVGFiles returns exactly the entries of the listing that end
\* with .svg, in the order of the listing, each joined with the directory;
\* no other entry appears, none is dropped, none is added.
C15_ReadSVGFilesIsFilteredListing ==
  OpsOf("readdirSync") # {} =>
    /\ Len(svgFiles) = Cardinality(SvgEntryPositions)
    /\ \A k \in 1..Len(svgFiles) :
         svgFiles[k] = <<"<cwd>", "/", "s", "v", "g", "/">>
                         \o listing[SvgEntryPosition(k)]

\* a listing of three entries, the first and the last of which are .svg
\* files that are not in alphabetical order, has been read
C15_Witness ==
  /\ OpsOf("readdirSync") # {}
  /\ Len(listing) = 3
  /\ SvgEntryPositions = {1, 3}
  /\ listing[1] = <<"b">> \o SvgExt
  /\ listing[3] = <<"a">> \o SvgExt
  /\ Len(svgFiles) = 2

\* the font asset was written by this run
FontAssetWritten ==
  /\ IconsWoff2 \in DOMAIN outFiles
  /\ outFiles[IconsWoff2] # OldContent

\* the document the assembler produces in this run: its chunks in
\* production order
RECURSIVE ProducedDocument(_)
ProducedDocument(n) ==
  IF n = 0 THEN <<>> ELSE ProducedDocument(n - 1) \o <<ToString(n)>>

CollectingInputs == OpsOf("readdirSync") # {}
AssemblingFont == calls > 0
TranscodingFont == stream = "finished"
EmittingStylesheet == \E k \in 1..Len(WrittenPaths) : WrittenPaths[k] = IconsCss
StagesEntered ==
  <<CollectingInputs, AssemblingFont, TranscodingFont, EmittingStylesheet, Done>>

\* C17: the stages are entered only in the order CollectingInputs,
\* AssemblingFont, TranscodingFont, EmittingStylesheet, Done, each at most
\* once, a later one never before the earlier one, and none after a failure
\* or after Done.
C17_StagesInOrder ==
  /\ [](/\ AssemblingFont => CollectingInputs
        /\ TranscodingFont => AssemblingFont
        /\ EmittingStylesheet => TranscodingFont
        /\ Done => EmittingStylesheet
        /\ calls <= 1
        /\ Cardinality({k \in 1..Len(WrittenPaths) : WrittenPaths[k] = IconsCss}) <= 1)
  /\ [][ (PipelineFailed \/ Done \/ pc = "exited")
           => StagesEntered' = StagesEntered ]_vars

\* the output directory did not exist and the run created it
OutputDirectoryCreated ==
  \E k \in OpsOf("mkdirSync") :
    fsOps[k].path = <<"<cwd>", "/", "i", "c", "o", "n", "s">>

\* C18: generateFont is called at most once, and only when ./svg exists,
\* at least one .svg file was collected and either ./icons did not exist
\* and was created first, or the answer, trimmed and lower-cased, is 's';
\* while the confirmation is pending no output file has been written.
C18_GenerationAuthorized ==
  /\ calls <= 1
  /\ calls = 1 =>
       /\ svgDirExists
       /\ SvgEntryPositions # {}
       /\ Len(svgFiles) >= 1
       /\ \/ (OutputDirectoryCreated /\ outDirExists /\ answered = <<>>)
          \/ (~ OutputDirectoryCreated /\ Len(answered) = 1
              /\ toLowerCase(trim(answered[1])) = <<"s">>)
  /\ (pc = "question" \/ rl = "asking") =>
       /\ calls = 0
       /\ WrittenPaths = <<>>
       /\ \A p \in DOMAIN outFiles : outFiles[p] = OldContent

\* generateFont was called after the answer " S<tab>"
C18_Witness ==
  /\ calls = 1
  /\ answered = << <<" ", "S", "\t">> >>
  /\ stream = "flowing"

\* the stylesheet was written by this run
StylesheetWritten ==
  /\ IconsCss \in DOMAIN outFiles
  /\ outFiles[IconsCss] # OldContent

\* C19: the stylesheet is never written before the font asset of the same
\* run: whenever icons.css has been written by this run, icons.woff2 has
\* been written before it by this run, from the same assembled document;
\* when transcoding or the write of the asset fails, no stylesheet is
\* written.
C19_AssetBeforeStylesheet ==
  /\ StylesheetWritten =>
       /\ FontAssetWritten
       /\ outFiles[IconsWoff2]
            = <<"woff2(", "ttf(">> \o bufferConcat(svgChunks) \o <<")", ")">>
       /\ \E i, j \in 1..Len(WrittenPaths) :
            i < j /\ WrittenPaths[i] = IconsWoff2 /\ WrittenPaths[j] = IconsCss
  /\ (stream = "finished" /\ ~ FontAssetWritten) =>
       /\ ~ StylesheetWritten
       /\ ~ EmittingStylesheet

\* the asset of the run was written and the write of the stylesheet failed
\* over an old stylesheet
C19_Witness ==
  /\ stream = "finished"
  /\ FontAssetWritten
  /\ EmittingStylesheet
  /\ IconsCss \in DOMAIN outFiles
  /\ ~ StylesheetWritten

\* C20: every run terminates: on each path that does not end with
\* process.exit (declined confirmation, success, caught error, stream
\* 'error') the readline interface is eventually closed and the process
\* ends; the interface is never left open forever.
C20_RunTerminates ==
  /\ <>(pc = "exited")
  /\ <>[](rl = "closed" \/ exitCode \in {ExitDirectoryNotFound,
                                         ExitNoInputFiles, ExitUncaught})

\* a run whose stream was destroyed by an error has ended with the prompt
\* closed
C20_Witness ==
  /\ pc = "exited"
  /\ stream = "destroyed"
  /\ rl = "closed"
  /\ exitCode = 0

----------------------------------------------------------------------------
(* State of a function-level specification: the program is not running. *)

NotRunning ==
  /\ svgDirExists = FALSE
  /\ listing = <<>>
  /\ outDirExists = FALSE
  /\ outFiles = <<>>
  /\ fsOps = <<>>
  /\ pc = "function"
  /\ rl = "open"
  /\ exitCode = -1
  /\ console = <<>>
  /\ svgFiles = <<>>
  /\ glyphs = <<>>
  /\ cssContent = <<>>
  /\ svgChunks = <<>>
  /\ stream = "none"
  /\ total = 0
  /\ errors = 0
  /\ calls = 0
  /\ answered = <<>>

(* Specification of sanitizeGlyphName over all strings up to MaxLen. *)

InitSanitize ==
  /\ NotRunning
  /\ arg \in {<<s>> : s \in StringsUpTo(MaxLen)}
  /\ res = <<>>

SanitizeCall ==
  /\ pc = "function"
  /\ Len(res) < Len(arg)
  /\ res' = Append(res, sanitizeGlyphName(arg[Len(res) + 1]))
  /\ UNCHANGED <<arg, mainVars>>

NextSanitize == SanitizeCall

SpecSanitize == InitSanitize /\ [][NextSanitize]_vars

\* the character class [A-Za-z0-9] of the claims
Alnum == Range(LowerCase) \cup Range(UpperCase) \cup Range(Digits)

\* C3: sanitizeGlyphName is length preserving and position-wise: the result
\* is as long as the input, every character of [A-Za-z0-9] stays unchanged
\* at its position, every other character becomes exactly one '-', so the
\* result has only characters of [A-Za-z0-9-].
C3_SanitizePositionWise ==
  \A n \in 1..Len(res) :
    LET s == arg[n]
        r == res[n]
    IN /\ Len(r) = Len(s)
       /\ \A k \in 1..Len(s) :
            r[k] = (IF s[k] \in Alnum THEN s[k] ELSE "-")
       /\ Range(r) \subseteq Alnum \cup {"-"}

\* a string with two consecutive non-alphanumeric characters and a capital
\* has been sanitized
C3_Witness ==
  /\ Len(res) = 1
  /\ arg[1] = <<"_", ".", "Z">>
  /\ res[1] = <<"-", "-", "Z">>


----------------------------------------------------------------------------
(* Specification of the forEach callback: two glyphs of one run, at two    *)
(* different positions of svgFiles.  The positions sampled are the first   *)
(* ones and those around 0x2000 and 0x10000 files.                         *)

IndexSamples == (0..MaxIdx) \cup {8191, 8192, 65535, 65536}

CollectedFiles == {join(svgDirectory, n) : n \in {e \in EntryNames : endsWith(e, SvgExt)}}

InitGlyph ==
  /\ NotRunning
  /\ arg \in {<<[file |-> f, index |-> i], [file |-> g, index |-> j]>> :
                <<f, g>> \in CollectedFiles \X CollectedFiles,
                <<i, j>> \in {p \in IndexSamples \X IndexSamples : p[1] # p[2]}}
  /\ res = <<>>

GlyphCall ==
  /\ pc = "function"
  /\ Len(res) < Len(arg)
  /\ LET a == arg[Len(res) + 1]
     IN res' = Append(res, glyphOf(a.file, a.index))
  /\ UNCHANGED <<arg, mainVars>>

NextGlyph == GlyphCall

SpecGlyph == InitGlyph /\ [][NextGlyph]_vars

\* the code point of a glyph's metadata: the number of its only code unit
MetadataCodePoint(g) == g.metadata.unicode[1][1]

\* C2: the rule of the file at index i is
\* .icon-<sanitized basename>:before { content: "\<h>"; } with h the
\* lowercase hexadecimal form of 0xE000 + i, for every index i.
C2_RuleOfIndex ==
  \A n \in 1..Len(res) :
    res[n].css = <<".icon-">>
                 \o sanitizeGlyphName(basename(arg[n].file, SvgExt))
                 \o <<":before { content: \"\\">>
                 \o toString16(57344 + arg[n].index)
                 \o <<"\"; }">>

\* C4: the code point of the glyph at index i, in the metadata handed to the
\* assembler and in the stylesheet rule, is the integer 0xE000 + i, with no
\* upper bound on i.
C4_CodePointIsBasePlusIndex ==
  \A n \in 1..Len(res) :
    /\ MetadataCodePoint(res[n]) = 57344 + arg[n].index
    /\ RuleCodePoint(res[n].css) = 57344 + arg[n].index

\* C5: two glyphs of one run at distinct indices have different code points.
C5_CodePointsInjective ==
  Len(res) = 2 /\ arg[1].index # arg[2].index
    => MetadataCodePoint(res[1]) # MetadataCodePoint(res[2])

----------------------------------------------------------------------------
(* Specification of getSVGFilesHash: two evaluations, each over its own    *)
(* list of files and its own disk.                                         *)

HashNames == {<<"x">> \o SvgExt, SvgExt, <<"2">> \o SvgExt}
HashSizes == {1, 3, 12}
HashContents == {"p", "q"}

HashEntries == [path : HashNames, size : HashSizes, content : HashContents]

\* lists of at most two files with different paths
HashInputs ==
  {<<>>} \cup {<<f>> : f \in HashEntries}
         \cup {p \in HashEntries \X HashEntries : p[1].path # p[2].path}

PathsOf(input) == [k \in 1..Len(input) |-> input[k].path]
SizesOf(input) == [k \in 1..Len(input) |-> input[k].size]
ContentsOf(input) == [k \in 1..Len(input) |-> input[k].content]

\* the disk an input describes
DiskOf(input) ==
  [p \in Range(PathsOf(input)) |->
     LET f == input[CHOOSE k \in 1..Len(input) : input[k].path = p]
     IN [size |-> f.size, content |-> f.content]]

InitHash ==
  /\ NotRunning
  /\ arg \in HashInputs \X HashInputs
  /\ res = <<>>

HashCall ==
  /\ pc = "function"
  /\ Len(res) < Len(arg)
  /\ LET input == arg[Len(res) + 1]
     IN res' = Append(res, getSVGFilesHash(PathsOf(input), DiskOf(input)))
  /\ UNCHANGED <<arg, mainVars>>

NextHash == HashCall

SpecHash == InitHash /\ [][NextHash]_vars

\* C13: two evaluations over the same ordered sequence of paths and sizes
\* give the same digest, whatever the contents of the files are.
C13_HashIgnoresContents ==
  (Len(res) = 2 /\ PathsOf(arg[1]) = PathsOf(arg[2])
                /\ SizesOf(arg[1]) = SizesOf(arg[2]))
    => res[1] = res[2]

\* two lists of two files with the same paths and sizes and different
\* contents have been hashed
C13_Witness ==
  /\ Len(res) = 2
  /\ Len(arg[1]) = 2
  /\ PathsOf(arg[1]) = PathsOf(arg[2])
  /\ SizesOf(arg[1]) = SizesOf(arg[2])
  /\ ContentsOf(arg[1])[1] # ContentsOf(arg[2])[1]
  /\ ContentsOf(arg[1])[2] # ContentsOf(arg[2])[2]

====
